---- MODULE Spec2Model ----
(***************************************************************************)
(* A model of hw5.py: the class QuestionnaireAnalysis, which checks a path *)
(* at construction, loads a JSON table with read_data and offers four      *)
(* analyses over the loaded table.                                         *)
(*                                                                         *)
(* A numeric cell is a float; it is modelled as an exact fraction <<n, d>> *)
(* in lowest terms with d > 0, and the missing value NaN as <<0, 0>>.      *)
(* A string cell is a sequence of one-character strings.                   *)
(* A DataFrame is [index |-> the row labels, rows |-> the rows], a row a    *)
(* record whose fields are the columns.                                    *)
(***************************************************************************)
EXTENDS Integers, Sequences, FiniteSets, TLC

VARIABLES fs, constructed, data_fname, has_data, data, call, ret, err

vars == <<fs, constructed, data_fname, has_data, data, call, ret, err>>

(***************************************************************************)
(* Bounds of the model                                                     *)
(***************************************************************************)
\* The largest number of respondents (rows) in a data file.
MaxRows == 2
\* The longest email value of the pattern-matching specification.
MaxLen == 6

(***************************************************************************)
(* Floats                                                                  *)
(***************************************************************************)
NaN == <<0, 0>>

IsNaN(x) == x[2] = 0

Abs(n) == IF n < 0 THEN -n ELSE n

RECURSIVE GCD(_, _)
GCD(a, b) == IF b = 0 THEN a ELSE GCD(b, a % b)

\* The fraction n/d (d > 0) in lowest terms.
Frac(n, d) ==
    LET g == GCD(Abs(n), d)
    IN  IF n < 0 THEN <<-(Abs(n) \div g), d \div g>> ELSE <<n \div g, d \div g>>

Int2Num(n) == <<n, 1>>

NumAdd(x, y) == Frac(x[1] * y[2] + y[1] * x[2], x[2] * y[2])

NumDiv(x, k) == Frac(x[1], x[2] * k)

\* Comparisons of floats; every comparison with NaN is false.
NumLt(x, y) == ~IsNaN(x) /\ ~IsNaN(y) /\ x[1] * y[2] < y[1] * x[2]

NumLe(x, y) == ~IsNaN(x) /\ ~IsNaN(y) /\ x[1] * y[2] <= y[1] * x[2]

NumGt(x, y) == NumLt(y, x)

\* The members of a sequence that are not NaN, in order.
RECURSIVE NotNaN(_)
NotNaN(s) ==
    IF s = <<>> THEN <<>>
    ELSE IF IsNaN(Head(s)) THEN NotNaN(Tail(s))
         ELSE <<Head(s)>> \o NotNaN(Tail(s))

RECURSIVE NumSum(_)
NumSum(s) == IF s = <<>> THEN Int2Num(0) ELSE NumAdd(Head(s), NumSum(Tail(s)))

\* pandas' mean with skipna: the mean of the values that are not NaN, and NaN
\* when there are none.
NanMean(s) ==
    LET v == NotNaN(s)
    IN  IF v = <<>> THEN NaN ELSE NumDiv(NumSum(v), Len(v))

(***************************************************************************)
(* Tables                                                                  *)
(***************************************************************************)
QCols == <<"q1", "q2", "q3", "q4", "q5">>

\* df.loc[:, 'q1':'q5'] of one row: its five answers, in column order.
QValues(r) == [j \in 1..Len(QCols) |-> r[QCols[j]]]

Range(s) == {s[i] : i \in 1..Len(s)}

\* The labels a freshly read or reset table gets: 0, 1, ..., n-1.
RangeIndex(n) == [i \in 1..n |-> i - 1]

\* s[mask]: the members of s whose mask entry is true, in order.
RECURSIVE Select(_, _)
Select(s, mask) ==
    IF s = <<>> THEN <<>>
    ELSE LET n == Len(s)
             front == Select(SubSeq(s, 1, n - 1), SubSeq(mask, 1, n - 1))
         IN  IF mask[n] THEN Append(front, s[n]) ELSE front

(***************************************************************************)
(* The email pattern  \w+[.\w+]*@\w+.\w+  and re.match                     *)
(***************************************************************************)
\* The word characters (\w) among the characters the model's strings use.
WordChars == {"a", "b", "c", "d", "e", "i", "l", "m", "x", "y", "z", "_", "1"}

NewLine == "\n"

\* Whether character c belongs to a class of the pattern:
\*   "w"   \w       a word character
\*   "set" [.\w+]   a dot, a word character or a plus sign
\*   "at"  @        the literal @
\*   "dot" .        any character but a line break (no DOTALL flag)
ClassHas(cls, c) ==
    CASE cls = "w"   -> c \in WordChars
      [] cls = "set" -> c = "." \/ c \in WordChars \/ c = "+"
      [] cls = "at"  -> c = "@"
      [] cls = "dot" -> c # NewLine

\* The pattern, item by item: a class and how often it repeats.
Pattern ==
    << [cls |-> "w",   rep |-> "+"],
       [cls |-> "set", rep |-> "*"],
       [cls |-> "at",  rep |-> "1"],
       [cls |-> "w",   rep |-> "+"],
       [cls |-> "dot", rep |-> "1"],
       [cls |-> "w",   rep |-> "+"] >>

\* The backtracking matcher: MatchAt(pat, s, k, i) is whether items k.. of pat
\* match s from position i on; MatchMore is the same inside a repetition of
\* item k.  The pattern is not anchored at its end, so the match succeeds as
\* soon as the pattern is used up, whatever follows in s.
RECURSIVE MatchAt(_, _, _, _), MatchMore(_, _, _, _)
MatchAt(pat, s, k, i) ==
    IF k > Len(pat) THEN TRUE
    ELSE LET here == i <= Len(s) /\ ClassHas(pat[k].cls, s[i])
         IN  CASE pat[k].rep = "1" -> here /\ MatchAt(pat, s, k + 1, i + 1)
               [] pat[k].rep = "+" -> here /\ MatchMore(pat, s, k, i + 1)
               [] pat[k].rep = "*" -> MatchMore(pat, s, k, i)

MatchMore(pat, s, k, i) ==
    \/ i <= Len(s) /\ ClassHas(pat[k].cls, s[i]) /\ MatchMore(pat, s, k, i + 1)
    \/ MatchAt(pat, s, k + 1, i)

\* re.match anchored at the end as well (re.fullmatch): not what the code calls.
RECURSIVE FullMatchAt(_, _, _, _), FullMatchMore(_, _, _, _)
FullMatchAt(pat, s, k, i) ==
    IF k > Len(pat) THEN i = Len(s) + 1
    ELSE LET here == i <= Len(s) /\ ClassHas(pat[k].cls, s[i])
         IN  CASE pat[k].rep = "1" -> here /\ FullMatchAt(pat, s, k + 1, i + 1)
               [] pat[k].rep = "+" -> here /\ FullMatchMore(pat, s, k, i + 1)
               [] pat[k].rep = "*" -> FullMatchMore(pat, s, k, i)

FullMatchMore(pat, s, k, i) ==
    \/ i <= Len(s) /\ ClassHas(pat[k].cls, s[i]) /\ FullMatchMore(pat, s, k, i + 1)
    \/ FullMatchAt(pat, s, k + 1, i)

StrFullMatch(s) == FullMatchAt(Pattern, s, 1, 1)

\* Series.str.match(pattern) of one string value: re.match(pattern, s) found
\* a match at the start of s.
StrMatch(s) == MatchAt(Pattern, s, 1, 1)

(***************************************************************************)
(* show_age_distrib                                                        *)
(***************************************************************************)
\* np.linspace(start, stop, num): num evenly spaced floats, both ends included.
Linspace(start, stop, num) ==
    [i \in 1..num |-> Frac(start * (num - 1) + (i - 1) * (stop - start), num - 1)]

\* bins=np.linspace(0, 100, 11)
Bins == Linspace(0, 100, 11)

\* searchsorted(edge, 'left') and (..., 'right') in the sorted values: how many
\* values lie below the edge, and how many at or below it.  NaN sorts last and
\* is never counted.
CountLt(a, edge) == Cardinality({i \in 1..Len(a) : NumLt(a[i], edge)})

CountLe(a, edge) == Cardinality({i \in 1..Len(a) : NumLe(a[i], edge)})

\* A histogram whose last bin is half-open like the others.
HistogramHalfOpen(a, edges) ==
    LET m == Len(edges)
        cum_n == [k \in 1..m |-> CountLt(a, edges[k])]
    IN  [k \in 1..(m - 1) |-> cum_n[k + 1] - cum_n[k]]

\* np.histogram(a, bins=edges) as plt.hist calls it: the cumulative counts at
\* the edges, 'left' at every edge but the last and 'right' at the last one,
\* and their differences.
Histogram(a, edges) ==
    LET m == Len(edges)
        cum_n == [k \in 1..m |->
                    IF k < m THEN CountLt(a, edges[k]) ELSE CountLe(a, edges[m])]
    IN  [k \in 1..(m - 1) |-> cum_n[k + 1] - cum_n[k]]

Column(df, c) == [i \in 1..Len(df.rows) |-> df.rows[i][c]]

\* The tuple plt.hist returns: the counts, the bin edges and the drawn patches.
AgeDist(df) ==
    [kind |-> "hist", n |-> Histogram(Column(df, "age"), Bins), bins |-> Bins,
     patches |-> "BarContainer"]

(***************************************************************************)
(* remove_rows_without_mail                                                *)
(***************************************************************************)
\* df[mask]: the rows whose mask entry is true, each with its label.
BoolIndex(df, mask) ==
    [index |-> Select(df.index, mask), rows |-> Select(df.rows, mask)]

\* df.reset_index(drop=True): the old labels are dropped.
ResetIndexDrop(df) == [index |-> RangeIndex(Len(df.rows)), rows |-> df.rows]

\* df.reset_index(): the old labels become the column "index", and the rows
\* are labelled 0, 1, ... anew.
ResetIndex(df) ==
    [index |-> RangeIndex(Len(df.rows)),
     rows  |-> [i \in 1..Len(df.rows) |->
                  [c \in DOMAIN df.rows[i] \cup {"index"} |->
                     IF c = "index" THEN df.index[i] ELSE df.rows[i][c]]]]

WithValidMail(df) ==
    ResetIndex(BoolIndex(df, [i \in 1..Len(df.rows) |-> StrMatch(df.rows[i].email)]))

(***************************************************************************)
(* fill_na_with_mean                                                       *)
(***************************************************************************)
\* df.loc[:, 'q1':'q5'].isna().all(1)
AllNa(df) ==
    [i \in 1..Len(df.rows) |-> \A j \in 1..Len(QCols) : IsNaN(df.rows[i][QCols[j]])]

\* df.loc[:, 'q1':'q5'].isna().any(1)
AnyNa(df) ==
    [i \in 1..Len(df.rows) |-> \E j \in 1..Len(QCols) : IsNaN(df.rows[i][QCols[j]])]

\* np.array(df.index[...]): the labels of the rows with a missing answer.
NanArray(df) == Select(df.index, AnyNa(df))

\* The row sums divided by the number of questions, a missing answer counting
\* as nothing.
MeanGradeOverFive(df) ==
    [l \in Range(df.index) |->
        LET i == CHOOSE i \in 1..Len(df.index) : df.index[i] = l
        IN  NumDiv(NumSum(NotNaN(QValues(df.rows[i]))), Len(QCols))]

\* df.loc[:, 'q1':'q5'].mean(axis=1): a Series over df.index, here as the
\* function from a label to the mean of that row's answers.
MeanGrade(df) ==
    [l \in Range(df.index) |->
        LET i == CHOOSE i \in 1..Len(df.index) : df.index[i] = l
        IN  NanMean(QValues(df.rows[i]))]

\* fillna without inplace=True: the filled copy is dropped.
FillNaCopy(df, s) == df

\* df.fillna({'q1': s, ..., 'q5': s}): in each of the five columns a NaN cell
\* gets the value s has at the row's label; every other cell is kept.
FillNa(df, s) ==
    [df EXCEPT !.rows =
        [i \in 1..Len(df.rows) |->
            [c \in DOMAIN df.rows[i] |->
                IF c \in Range(QCols) /\ IsNaN(df.rows[i][c])
                THEN s[df.index[i]]
                ELSE df.rows[i][c]]]]

(***************************************************************************)
(* correlate_gender_age                                                    *)
(***************************************************************************)
\* The gender values of the model's tables, in ascending (string) order.
GenderOrder == <<"F", "M">>

StrRank(g) == CHOOSE k \in 1..Len(GenderOrder) : GenderOrder[k] = g

\* self.data.age >= 40, row by row.
AtLeast40(df) == [i \in 1..Len(df.rows) |-> NumLe(Int2Num(40), df.rows[i].age)]

\* self.data.age > 40, row by row.
Above40(df) == [i \in 1..Len(df.rows) |-> NumGt(df.rows[i].age, Int2Num(40))]

\* The group key of each row: (gender, age > 40).
GroupKeys(df) == [i \in 1..Len(df.rows) |-> <<df.rows[i].gender, Above40(df)[i]>>]

\* The order of group keys: by gender, then False before True.
KeyLe(a, b) ==
    \/ StrRank(a[1]) < StrRank(b[1])
    \/ a[1] = b[1] /\ (a[2] => b[2])

\* groupby sorts the keys it has seen.
RECURSIVE SortKeys(_)
SortKeys(S) ==
    IF S = {} THEN <<>>
    ELSE LET k == CHOOSE k \in S : \A o \in S : KeyLe(k, o)
         IN  <<k>> \o SortKeys(S \ {k})

\* groupby([...])[['q1', ..., 'q5']].mean(): one row per key seen, in key order,
\* each cell the mean (skipping NaN) of the column over the rows of the group.
GenderAge(df) ==
    LET keys  == GroupKeys(df)
        index == SortKeys(Range(keys))
        members(k) == Select(df.rows, [i \in 1..Len(df.rows) |-> keys[i] = k])
    IN  [kind  |-> "corr",
         index |-> index,
         rows  |-> [g \in 1..Len(index) |->
                      [c \in Range(QCols) |-> NanMean(Column([rows |-> members(index[g])], c))]]]

(***************************************************************************)
(* The data files of the model                                             *)
(***************************************************************************)
MkRow(age, gender, email, q) ==
    [age |-> age, gender |-> gender, email |-> email,
     q1 |-> q[1], q2 |-> q[2], q3 |-> q[3], q4 |-> q[4], q5 |-> q[5]]

\* pd.read_json labels the rows 0, 1, ..., n-1 in file order.
MkFrame(rows) == [index |-> RangeIndex(Len(rows)), rows |-> rows]

EmptyFrame == MkFrame(<<>>)

\* The tables of 1..MaxRows rows drawn from a set of rows.
TablesOver(Rows) == {MkFrame(rs) : rs \in UNION {[1..n -> Rows] : n \in 1..MaxRows}}

Num(S) == {Int2Num(n) : n \in S}

MailOk == <<"x", "@", "y", ".", "z">>

AnsweredQ == <<Int2Num(2), Int2Num(4), Int2Num(5), Int2Num(6), Int2Num(8)>>

\* Ages around every bin edge, outside [0, 100], fractional and missing.
AgeValues == Num({-1, 0, 9, 10, 40, 41, 89, 90, 99, 100, 101}) \cup {<<199, 2>>, NaN}

AgeRows == {MkRow(a, "F", MailOk, AnsweredQ) : a \in AgeValues}

\* Email values: well formed, malformed, and the pattern's loose cases.
MailValues ==
    { <<"a", ".", "b", "@", "c", ".", "d">>,
      <<"b", "a", "d", "-", "e", "m", "a", "i", "l">>,
      MailOk,
      <<"a", "@", "b", "!", "c">>,
      <<"x", "@", "y", ".", "z", "!", "!">>,
      <<"a", "+", "@", "b", ".", "c">>,
      <<"a", "-", "b", "@", "c", ".", "d">> }

MailRows == {MkRow(Int2Num(20), "M", e, AnsweredQ) : e \in MailValues}

\* Answers 2, 4, 5, 6, 8 with some of the five cells missing: none, one (first,
\* middle, last), several, all but one, and all.
MissingSets ==
    { {}, {3}, {1}, {5}, {1, 2}, {4, 5}, {1, 3, 5}, {2, 3, 4, 5}, {1, 2, 3, 4},
      {1, 2, 3, 4, 5} }

QPatterns ==
    {[j \in 1..Len(QCols) |-> IF j \in miss THEN NaN ELSE AnsweredQ[j]] :
        miss \in MissingSets}

FillRows == {MkRow(Int2Num(30), "F", MailOk, q) : q \in QPatterns}

\* Respondents of both genders on both sides of 40, with differing answers.
CorrQ ==
    { [j \in 1..Len(QCols) |-> Int2Num(0)],
      [j \in 1..Len(QCols) |-> Int2Num(10)],
      <<Int2Num(1), NaN, Int2Num(3), NaN, NaN>> }

CorrRows ==
    {MkRow(a, g, MailOk, q) : a \in Num({20, 40, 45}), g \in Range(GenderOrder), q \in CorrQ}

Tables == TablesOver(AgeRows) \cup TablesOver(MailRows)
            \cup TablesOver(FillRows) \cup TablesOver(CorrRows)

\* What a path names: a regular file (of well-formed JSON or not), a directory,
\* or nothing.
Paths == {"data.json", "broken.json", "tata.json", "datadir"}

FileOf(t) == [kind |-> "file", json |-> TRUE, table |-> t]

BrokenFile == [kind |-> "file", json |-> FALSE, table |-> EmptyFrame]

Directory == [kind |-> "dir", json |-> FALSE, table |-> EmptyFrame]

Missing == [kind |-> "missing", json |-> FALSE, table |-> EmptyFrame]

FileSystems(T) ==
    {[p \in Paths |->
        CASE p = "data.json"   -> FileOf(t)
          [] p = "broken.json" -> BrokenFile
          [] p = "datadir"     -> Directory
          [] p = "tata.json"   -> Missing] : t \in T}

(***************************************************************************)
(* The object and its operations                                           *)
(***************************************************************************)
NoResult == [kind |-> "none"]

Raised == [kind |-> "raise"]

Init ==
    /\ fs \in FileSystems(Tables)
    /\ constructed = FALSE
    /\ data_fname = ""
    /\ has_data = FALSE
    /\ data = EmptyFrame
    /\ call = ""
    /\ ret = NoResult
    /\ err = ""

\* pathlib.Path(p).exists(): true of a directory as well.
Exists(p) == fs[p].kind # "missing"

\* pathlib.Path(p).is_file()
IsFile(p) == fs[p].kind = "file"

\* A constructor that also loads the table.
ConstructAndRead(p) ==
    /\ ~constructed
    /\ call' = "__init__"
    /\ IF ~IsFile(p) \/ ~fs[p].json
       THEN /\ err' = "ValueError"
            /\ ret' = Raised
            /\ UNCHANGED <<constructed, data_fname, has_data, data>>
       ELSE /\ constructed' = TRUE
            /\ data_fname' = p
            /\ data' = fs[p].table
            /\ has_data' = TRUE
            /\ err' = ""
            /\ ret' = NoResult
    /\ UNCHANGED fs

\* QuestionnaireAnalysis(data_fname)
Construct(p) ==
    /\ ~constructed
    /\ call' = "__init__"
    /\ IF ~IsFile(p)
       THEN /\ err' = "ValueError"
            /\ ret' = Raised
            /\ UNCHANGED <<constructed, data_fname>>
       ELSE /\ constructed' = TRUE
            /\ data_fname' = p
            /\ err' = ""
            /\ ret' = NoResult
    /\ UNCHANGED <<fs, has_data, data>>

\* read_data(): pd.read_json raises on a file that is not JSON.
ReadData ==
    /\ constructed
    /\ call' = "read_data"
    /\ IF ~fs[data_fname].json
       THEN /\ err' = "ValueError"
            /\ ret' = Raised
            /\ UNCHANGED <<has_data, data>>
       ELSE /\ data' = fs[data_fname].table
            /\ has_data' = TRUE
            /\ err' = ""
            /\ ret' = NoResult
    /\ UNCHANGED <<fs, constructed, data_fname>>

\* A method that reads self.data before read_data has set it.
NoDataYet ==
    /\ err' = "AttributeError"
    /\ ret' = Raised
    /\ UNCHANGED data

ShowAgeDistrib ==
    /\ constructed
    /\ call' = "show_age_distrib"
    /\ IF ~has_data THEN NoDataYet
       ELSE /\ ret' = AgeDist(data)
            /\ err' = ""
            /\ UNCHANGED data
    /\ UNCHANGED <<fs, constructed, data_fname, has_data>>

\* A filter that stores the filtered table back into self.data.
RemoveRowsWithoutMailInPlace ==
    /\ constructed
    /\ call' = "remove_rows_without_mail"
    /\ IF ~has_data THEN NoDataYet
       ELSE /\ data' = WithValidMail(data)
            /\ ret' = [kind |-> "frame", frame |-> data']
            /\ err' = ""
    /\ UNCHANGED <<fs, constructed, data_fname, has_data>>

RemoveRowsWithoutMail ==
    /\ constructed
    /\ call' = "remove_rows_without_mail"
    /\ IF ~has_data THEN NoDataYet
       ELSE /\ ret' = [kind |-> "frame", frame |-> WithValidMail(data)]
            /\ err' = ""
            /\ UNCHANGED data
    /\ UNCHANGED <<fs, constructed, data_fname, has_data>>

FillNaWithMean ==
    /\ constructed
    /\ call' = "fill_na_with_mean"
    /\ IF ~has_data THEN NoDataYet
       ELSE LET nan_array == NanArray(data)
                mean_grade == MeanGrade(data)
            IN  /\ data' = FillNa(data, mean_grade)
                /\ ret' = [kind |-> "fill", frame |-> data', nan_array |-> nan_array]
                /\ err' = ""
    /\ UNCHANGED <<fs, constructed, data_fname, has_data>>

CorrelateGenderAge ==
    /\ constructed
    /\ call' = "correlate_gender_age"
    /\ IF ~has_data THEN NoDataYet
       ELSE /\ ret' = GenderAge(data)
            /\ err' = ""
            /\ UNCHANGED data
    /\ UNCHANGED <<fs, constructed, data_fname, has_data>>

Next ==
    \/ \E p \in Paths : Construct(p)
    \/ ReadData
    \/ ShowAgeDistrib
    \/ RemoveRowsWithoutMail
    \/ FillNaWithMean
    \/ CorrelateGenderAge

Spec == Init /\ [][Next]_vars

(***************************************************************************)
(* The email pattern alone: a loaded table of one respondent whose email   *)
(* is any string of at most MaxLen characters, and the filter applied.     *)
(***************************************************************************)
Alphabet == {"a", ".", "+", "@", "-", NewLine}

Strings == UNION {[1..n -> Alphabet] : n \in 0..MaxLen}

MatchTables == {MkFrame(<<MkRow(Int2Num(20), "F", e, AnsweredQ)>>) : e \in Strings}

InitMatch ==
    /\ fs \in FileSystems(MatchTables)
    /\ constructed = TRUE
    /\ data_fname = "data.json"
    /\ has_data = TRUE
    /\ data = fs[data_fname].table
    /\ call = "read_data"
    /\ ret = NoResult
    /\ err = ""

NextMatch == RemoveRowsWithoutMail

SpecMatch == InitMatch /\ [][NextMatch]_vars

(***************************************************************************)
(* Properties                                                              *)
(***************************************************************************)
AnalysisCalls ==
    {"show_age_distrib", "remove_rows_without_mail", "fill_na_with_mean",
     "correlate_gender_age"}

Returned(c) == call = c /\ err = ""

\* The position in df of the row labelled l.
PosOf(df, l) == CHOOSE i \in 1..Len(df.index) : df.index[i] = l

\* m is the mean of the values of s that are not missing (NaN when all are).
IsMeanOf(m, s) ==
    LET present == {i \in 1..Len(s) : s[i][2] # 0}
        total == NumSum(NotNaN(s))
    IN  IF present = {} THEN m = <<0, 0>>
        ELSE /\ m[2] > 0
             /\ m[1] * Cardinality(present) * total[2] = total[1] * m[2]

AllMissing(r) == \A j \in 1..Len(QCols) : r[QCols[j]] = <<0, 0>>

SomeMissing(r) == \E j \in 1..Len(QCols) : r[QCols[j]] = <<0, 0>>

\* C1: constructing with a path that is not an existing regular file fails with
\* a ValueError at construction and nothing is loaded; with a regular file the
\* construction succeeds, stores the path and still loads no table.
C1_ConstructionValidatesPath ==
    [][\A p \in Paths : Construct(p) =>
          /\ fs[p].kind # "file" =>
                /\ err' = "ValueError" /\ ret'.kind = "raise"
                /\ ~constructed' /\ data_fname' = "" /\ ~has_data'
          /\ fs[p].kind = "file" =>
                /\ err' = "" /\ constructed' /\ data_fname' = p
                /\ ~has_data' /\ data' = EmptyFrame]_vars

C1_Witness ==
    /\ call = "__init__" /\ err = "ValueError"
    /\ ~constructed /\ ~has_data /\ data_fname = ""

\* Age a (a float) lies in bin k of the ten bins of width 10 over [0, 100];
\* the last bin includes 100.
InBin(a, k) ==
    /\ a[2] > 0
    /\ 10 * (k - 1) * a[2] <= a[1]
    /\ IF k < 10 THEN a[1] < 10 * k * a[2] ELSE a[1] <= 100 * a[2]

RECURSIVE SumTo(_, _)
SumTo(f, k) == IF k = 0 THEN 0 ELSE f[k] + SumTo(f, k - 1)

\* C2: show_age_distrib returns the edges 0, 10, ..., 100 and ten counts, count
\* k being the number of ages in [10(k-1), 10k), the last one in [90, 100]; so
\* when all ages lie in [0, 100] the counts sum to the number of respondents,
\* and an age of exactly 100 is counted in the last bin.
C2_AgeHistogram ==
    Returned("show_age_distrib") =>
        LET ages == [i \in 1..Len(data.rows) |-> data.rows[i].age]
        IN  /\ ret.bins = [k \in 1..11 |-> <<10 * (k - 1), 1>>]
            /\ DOMAIN ret.n = 1..10
            /\ \A k \in 1..10 :
                  ret.n[k] = Cardinality({i \in 1..Len(ages) : InBin(ages[i], k)})
            /\ (\A i \in 1..Len(ages) :
                    ages[i][2] > 0 /\ 0 <= ages[i][1] /\ ages[i][1] <= 100 * ages[i][2])
                 => SumTo(ret.n, 10) = Len(ages)
            /\ ret.n[10] >= Cardinality({i \in 1..Len(ages) : ages[i] = <<100, 1>>})

C2_Witness ==
    /\ Returned("show_age_distrib")
    /\ Len(data.rows) = 2
    /\ data.rows[1].age = <<100, 1>> /\ data.rows[2].age = <<90, 1>>
    /\ ret.n[10] = 2 /\ ret.n[9] = 0

\* C3: remove_rows_without_mail returns a new table holding exactly the rows
\* whose email matches the pattern, in their original order, labelled
\* 0, 1, ..., k-1, each with its original cells and its old label in the added
\* column "index".
C3_FilterKeepsMatchingRows ==
    Returned("remove_rows_without_mail") =>
        LET f == ret.frame
            k == Len(f.rows)
        IN  /\ f.index = [j \in 1..k |-> j - 1]
            /\ Len(f.index) = k
            /\ k = Cardinality({i \in 1..Len(data.rows) : StrMatch(data.rows[i].email)})
            /\ \A j \in 1..k :
                  /\ DOMAIN f.rows[j] = DOMAIN data.rows[1] \cup {"index"}
                  /\ f.rows[j]["index"] \in Range(data.index)
                  /\ StrMatch(f.rows[j].email)
                  /\ \A c \in DOMAIN data.rows[1] :
                        f.rows[j][c] = data.rows[PosOf(data, f.rows[j]["index"])][c]
            /\ \A i, j \in 1..k : i < j => f.rows[i]["index"] < f.rows[j]["index"]
            /\ \A i \in 1..Len(data.rows) :
                  StrMatch(data.rows[i].email) =>
                      \E j \in 1..k : f.rows[j]["index"] = data.index[i]

C3_Witness ==
    /\ Returned("remove_rows_without_mail")
    /\ Len(data.rows) = 2
    /\ Len(ret.frame.rows) = 1
    /\ ret.frame.index = <<0>>
    /\ ret.frame.rows[1]["index"] = 1

AllIn(s, lo, hi, S) == \A m \in lo..hi : s[m] \in S

\* The shape the email filter accepts: the value starts with a word character,
\* goes on with any number of word characters, dots and plus signs up to an @,
\* then one or more word characters, one character that is not a line break,
\* and a word character; whatever follows is not looked at.
AcceptedShape(s) ==
    \E at \in 2..Len(s) : \E k \in (at + 1)..(Len(s) - 2) :
        /\ s[1] \in WordChars
        /\ AllIn(s, 2, at - 1, WordChars \cup {".", "+"})
        /\ s[at] = "@"
        /\ AllIn(s, at + 1, k, WordChars)
        /\ s[k + 1] # "\n"
        /\ s[k + 2] \in WordChars

\* The shape as the specification words it, of the whole value: word
\* characters, then groups of (any character, word characters), then @, word
\* characters, any one character, word characters.
RECURSIVE Groups(_)
Groups(u) ==
    \/ u = <<>>
    \/ \E k \in 2..Len(u) :
          /\ AllIn(u, 2, k, WordChars)
          /\ Groups(SubSeq(u, k + 1, Len(u)))

StatedShape(s) ==
    \E at \in 2..Len(s) : \E w \in 1..(at - 1) : \E k \in (at + 1)..(Len(s) - 2) :
        /\ AllIn(s, 1, w, WordChars)
        /\ Groups(SubSeq(s, w + 1, at - 1))
        /\ s[at] = "@"
        /\ AllIn(s, at + 1, k, WordChars)
        /\ AllIn(s, k + 2, Len(s), WordChars)

\* Whether the row of data labelled l is in the table the filter returned.
Kept(l) == \E j \in 1..Len(ret.frame.rows) : ret.frame.rows[j]["index"] = l

\* C4 as stated: the filter keeps a row exactly when its email has the stated
\* shape.
C4_StatedShapeDecides ==
    Returned("remove_rows_without_mail") =>
        \A i \in 1..Len(data.rows) :
            Kept(data.index[i]) <=> StatedShape(data.rows[i].email)

\* C4 amended: the filter keeps a row exactly when its email starts with a
\* word character, then any number of word characters, dots and plus signs,
\* then @, one or more word characters, one character other than a line break
\* and a word character, whatever follows.
C4_AcceptedShapeDecides ==
    Returned("remove_rows_without_mail") =>
        \A i \in 1..Len(data.rows) :
            Kept(data.index[i]) <=> AcceptedShape(data.rows[i].email)

C4_Witness ==
    /\ Returned("remove_rows_without_mail")
    /\ data.rows[1].email = <<"a", "+", "@", "a", "-", "a">>
    /\ Kept(0)

\* C5: remove_rows_without_mail leaves the stored table as it was, and a
\* second call on the unchanged table returns what the first returned.
C5_FilterDoesNotMutate ==
    [][call' = "remove_rows_without_mail" =>
          /\ data' = data /\ has_data' = has_data
          /\ (Returned("remove_rows_without_mail") /\ err' = "") => ret' = ret]_vars

C5_Witness ==
    /\ Returned("remove_rows_without_mail")
    /\ Len(ret.frame.rows) < Len(data.rows)
    /\ "index" \notin DOMAIN data.rows[1]

\* C6: fill_na_with_mean replaces, in the stored table, each missing cell of
\* q1..q5 by the mean of the row's answers that are not missing, and changes
\* nothing else: the other cells, the labels and the order of the rows stay,
\* and a row with all five answers missing stays all missing.
C6_FillRowWiseMean ==
    [][(call' = "fill_na_with_mean" /\ err' = "") =>
          /\ data'.index = data.index
          /\ Len(data'.rows) = Len(data.rows)
          /\ \A i \in 1..Len(data.rows) :
                /\ DOMAIN data'.rows[i] = DOMAIN data.rows[i]
                /\ \A c \in DOMAIN data.rows[i] :
                      IF c \in Range(QCols) /\ data.rows[i][c] = <<0, 0>>
                      THEN IsMeanOf(data'.rows[i][c], QValues(data.rows[i]))
                      ELSE data'.rows[i][c] = data.rows[i][c]
                /\ AllMissing(data.rows[i]) => AllMissing(data'.rows[i])
          /\ ret'.frame = data']_vars

C6_Witness ==
    /\ Returned("fill_na_with_mean")
    /\ Len(data.rows) = 2
    /\ ret.nan_array = <<0, 1>>
    /\ QValues(data.rows[1]) = <<<<23, 4>>, <<4, 1>>, <<5, 1>>, <<6, 1>>, <<8, 1>>>>
    /\ AllMissing(data.rows[2])

\* C7: the second value fill_na_with_mean returns is the labels, ascending, of
\* exactly the rows that had a missing answer before the call; a row with all
\* five answers missing is among them.
C7_NanArrayIsRowsWithMissing ==
    [][(call' = "fill_na_with_mean" /\ err' = "") =>
          LET a == ret'.nan_array
          IN  /\ Range(a) = {data.index[i] : i \in {i \in 1..Len(data.rows) :
                                                     SomeMissing(data.rows[i])}}
              /\ \A i, j \in 1..Len(a) : i < j => a[i] < a[j]
              /\ \A i \in 1..Len(data.rows) :
                    AllMissing(data.rows[i]) => data.index[i] \in Range(a)]_vars

C7_Witness ==
    /\ Returned("fill_na_with_mean")
    /\ Len(data.rows) = 2
    /\ ret.nan_array = <<1>>
    /\ AllMissing(data.rows[2])
    /\ ~SomeMissing(data.rows[1])

\* C8 as stated: a second call of fill_na_with_mean right after the first
\* changes no cell and finds no row with a missing answer.
C8_SecondFillFindsNothing ==
    [][(Returned("fill_na_with_mean") /\ call' = "fill_na_with_mean") =>
          /\ data' = data
          /\ ret'.nan_array = <<>>
          /\ \A i \in 1..Len(data.rows) : ~SomeMissing(data.rows[i])]_vars

\* C8 amended: after fill_na_with_mean the only rows with a missing answer are
\* the rows whose five answers are all missing; a second call changes no cell
\* of the stored table and reports exactly those rows.
C8_SecondFillKeepsTable ==
    [][(call' = "fill_na_with_mean" /\ err' = "") =>
          /\ \A i \in 1..Len(data'.rows) :
                SomeMissing(data'.rows[i]) => AllMissing(data.rows[i])
          /\ Returned("fill_na_with_mean") =>
                /\ data' = data
                /\ Range(ret'.nan_array) =
                      {data.index[i] : i \in {i \in 1..Len(data.rows) :
                                                AllMissing(data.rows[i])}}]_vars

C8_Witness ==
    /\ Returned("fill_na_with_mean")
    /\ Len(data.rows) = 2
    /\ ret.nan_array = <<1>>
    /\ AllMissing(data.rows[2])
    /\ data.rows[1].q1 = <<23, 4>>

\* The rows of the stored table in the group of gender g and side b of 40.
InGroup(g, b) ==
    {i \in 1..Len(data.rows) :
        /\ data.rows[i].gender = g
        /\ b <=> (data.rows[i].age[2] > 0
                    /\ data.rows[i].age[1] > 40 * data.rows[i].age[2])}

\* The cells of column c in the rows at the positions S, position ascending.
RECURSIVE ColumnOver(_, _)
ColumnOver(S, c) ==
    IF S = {} THEN <<>>
    ELSE LET i == CHOOSE i \in S : \A o \in S : i <= o
         IN  <<data.rows[i][c]>> \o ColumnOver(S \ {i}, c)

\* C9: correlate_gender_age returns one row per (gender, age > 40) pair that
\* occurs in the stored table and none for a pair that does not, age 40 itself
\* on the False side; each cell is the mean of the question's answers (those
\* not missing) over the rows of that group alone; the rows come by gender
\* ascending, then False before True.
C9_GroupedMeans ==
    Returned("correlate_gender_age") =>
        LET n == Len(ret.index)
        IN  /\ Len(ret.rows) = n
            /\ Range(ret.index) =
                  {k \in Range(GenderOrder) \X BOOLEAN : InGroup(k[1], k[2]) # {}}
            /\ \A i, j \in 1..n : i < j =>
                  \/ StrRank(ret.index[i][1]) < StrRank(ret.index[j][1])
                  \/ /\ ret.index[i][1] = ret.index[j][1]
                     /\ ~ret.index[i][2] /\ ret.index[j][2]
            /\ \A g \in 1..n :
                  /\ DOMAIN ret.rows[g] = Range(QCols)
                  /\ \A c \in Range(QCols) :
                        IsMeanOf(ret.rows[g][c],
                                 ColumnOver(InGroup(ret.index[g][1], ret.index[g][2]), c))

C9_Witness ==
    /\ Returned("correlate_gender_age")
    /\ Len(data.rows) = 2
    /\ data.rows[1].gender = "M" /\ data.rows[1].age = <<45, 1>>
    /\ data.rows[2].gender = "M" /\ data.rows[2].age = <<40, 1>>
    /\ ret.index = << <<"M", FALSE>>, <<"M", TRUE>> >>
    /\ ret.rows[1].q1 = <<0, 1>> /\ ret.rows[2].q1 = <<10, 1>>

\* C10: on a constructed object the table exists only once read_data has
\* loaded it; before that each of the four analyses raises and returns
\* nothing; after it each of them succeeds whatever was called before, and of
\* the four only fill_na_with_mean changes the stored table.
C10_LoadBeforeAnalysis ==
    [][/\ (~has_data /\ has_data') => (call' = "read_data" /\ err' = "")
       /\ has_data => has_data'
       /\ (call' \in AnalysisCalls /\ ~has_data) =>
             /\ err' = "AttributeError" /\ ret'.kind = "raise"
             /\ ~has_data' /\ data' = data
       /\ (call' \in AnalysisCalls /\ has_data) =>
             /\ err' = "" /\ ret'.kind \in {"hist", "frame", "fill", "corr"}
       /\ (call' \in AnalysisCalls \ {"fill_na_with_mean"}) => data' = data]_vars

C10_Witness ==
    /\ constructed /\ ~has_data
    /\ call \in AnalysisCalls
    /\ err = "AttributeError" /\ ret.kind = "raise"

====
